---- MODULE Spec2Model ----
(***************************************************************************)
(* Stock_Hub client orchestration layer.                                   *)
(*                                                                         *)
(*  Spec       the RequestQueue of front/src/utils/requestQueue.js         *)
(*  SpecCache  the two cache tiers (seriesCacheRef + localStorage) of      *)
(*             PredictPage.js and HomePage.js                              *)
(*  SpecPoll   fetchPredictions / getPredictions / pollJob of              *)
(*             PredictPage.js and front/src/services/api.js                *)
(***************************************************************************)
EXTENDS Integers, Sequences, FiniteSets, TLC

(***************************************************************************)
(* Bounds of the model                                                     *)
(***************************************************************************)
NTasks == 4
TickMs == 500
NValues == 2
MaxEvents == 1
MaxAdvances == 1
MaxQuotaErrors == 1
PTickMs == 500
MaxLatency == 1000
MaxRaceEvents == 2

(***************************************************************************)
(* Program constants                                                       *)
(***************************************************************************)
maxConcurrent == 2
delayBetweenRequests == 1000

Tasks == 1..NTasks
Values == 1..NValues
NoResult == [kind |-> "none", v |-> 0]
Outcomes == [kind : {"ok", "err"}, v : Values]
LiveOutcomes == {o \in Outcomes : o.v = 1}

VARIABLES
  queue,          \* this.queue: tasks waiting, in push order
  running,        \* this.running
  timers,         \* ms left of each pending setTimeout(() => this.process(), delay), oldest first
  status,         \* per task: "new" (add not called), "queued", "running" (awaiting requestFn()), "done"
  execResult,     \* per task: how its executor settled
  promise,        \* per task: how the promise returned by add() settled
  behav,          \* per task: 0 if requestFn returns a promise, else the error it throws
  invoked,        \* per task: number of times requestFn() was called
  addOrder,       \* history: tasks in the order add() was called
  startOrder,     \* history: tasks in the order their executor was started
  sinceBusySettle,\* history: ms elapsed (capped at the delay) since the latest settle that
                  \* left a non-empty queue and was not followed by a start yet (-1: none)
  lastStartGap    \* history: sinceBusySettle at the moment of the latest start

qvars == <<queue, running, timers, status, behav, execResult, promise, invoked,
           addOrder, startOrder, sinceBusySettle, lastStartGap>>

(***************************************************************************)
(* Series cache of PredictPage.js / HomePage.js                            *)
(***************************************************************************)
Symbols == {"SPY", "AAPL"}
\* range tabs of the model: the intraday tab, a prefetched short range and a
\* long range
Ranges == {"1D", "1W", "6M"}
Keys == Symbols \X Ranges
Pages == {"home", "predict"}
\* length of a series: 0, or 2 for "two or more"
Lengths == {0, 2}

\* a series of n points fetched for sym and range r at time at; NoPoints is null/undefined
NoPoints == [sym |-> "", r |-> "", n |-> -1, at |-> -1]
\* the raw localStorage item `sh:ts:${sym}:${r}`
Absent == [kind |-> "absent", points |-> NoPoints, exp |-> 0]
Malformed == {"garbage", "nopoints", "noexp"}

VARIABLES
  now,            \* Date.now(), ms
  market,         \* the market state the backend reports in /intraday
  store,          \* localStorage, per key sh:ts:sym:range
  lastSymbol,     \* localStorage sh:lastSymbol ("" when absent)
  page,           \* the mounted page component
  selectedSymbol, \* state of the mounted page
  range,
  series,
  intraday,
  lastFullDate,
  dataLoading,
  mem,            \* seriesCacheRef.current of the mounted page, per range
  loads,          \* load() closures of the symbol effect that are awaiting a response
  prefetches,     \* background getTimeSeries calls awaiting a response
  clicks,         \* range-tab handlers awaiting a response
  events,         \* number of user and market events so far
  advances,       \* number of clock advances so far
  quotaErrors,    \* number of setItem calls that threw so far
  healed,         \* history: keys whose malformed item was replaced by a stored write
  lastWriteExp,   \* history: per key, write time + TTL of the latest write (-1: none)
  reads           \* history: the cache reads of the latest handler that read the cache

cvars == <<now, market, store, lastSymbol, page, selectedSymbol, range, series, intraday,
           lastFullDate, dataLoading, mem, loads, prefetches, clicks, events, advances,
           quotaErrors, healed, lastWriteExp, reads>>

\* the series-cache state other than the clock
cfixed == <<market, store, lastSymbol, page, selectedSymbol, range, series, intraday,
            lastFullDate, dataLoading, mem, loads, prefetches, clicks, events, advances,
            quotaErrors, healed, lastWriteExp, reads>>

(***************************************************************************)
(* Predictions: getPredictions / pollJob of services/api.js                *)
(***************************************************************************)
timeoutMs == 20000
intervalMs == 1000

VARIABLES
  ppc,            \* where fetchPredictions is: "idle", "submit" (awaiting GET /predictions),
                  \* "poll" (awaiting GET /jobs), "sleep" (awaiting setTimeout), "settled"
  start,          \* const start = Date.now() of pollJob
  waited,         \* ms the request awaited in "poll" has been in flight
  timer,          \* ms left of the setTimeout(res, intervalMs) awaited in "sleep"
  job,            \* backend: status of the enqueued job ("none" before the 202)
  jobError,       \* history: the error message the response of a failed job carried
  respData,       \* history: the body of the response that carried the result
  token,          \* localStorage stockhub_token is present
  location,       \* window.location.href
  predictionsData,\* state of the page
  predError,      \* state of the page: error
  lastPredModelData, \* localStorage sh:lastPredModelData
  outcome,        \* how the promise of getPredictions settled
  submitResp,     \* history: the response to the submit of the latest call
  pollCount,      \* history: requests to /jobs issued by the latest call
  pollGap,        \* history: ms between the latest two requests to /jobs (-1: fewer than two)
  prevLatency,    \* history: ms the previous request to /jobs was in flight
  lastPollAt,     \* history: Date.now() when the latest request to /jobs was issued
  seen            \* history: statuses reported by the responses of /jobs

pvars == <<ppc, start, waited, timer, job, jobError, respData, token, location,
           predictionsData, predError, lastPredModelData, outcome,
           submitResp, pollCount, pollGap, prevLatency, lastPollAt, seen>>

(***************************************************************************)
(* Authentication: AuthContext, ProtectedRoute and the calls of api.js     *)
(***************************************************************************)
VARIABLES
  authToken,      \* AuthProvider state: token is non-null
  authUser,       \* AuthProvider state: user is non-null
  authLoading,    \* AuthProvider state: loading
  apc,            \* where AuthProvider is: "idle", "verify" (the mount effect awaits
                  \* /auth/me), "login" (login awaits /auth/login), "loginVerify"
                  \* (login awaits verifyToken)
  lastApi         \* history: the latest call of a function of api.js, its response
                  \* status, the error it threw, and whether the credential was
                  \* still stored when it returned

avars == <<authToken, authUser, authLoading, apc, lastApi>>

vars == <<qvars, cvars, pvars, avars>>

(***************************************************************************)
(* RequestQueue                                                            *)
(***************************************************************************)
\* process(): the early return of line 22, negated
CanAdmit_offByOne(r, q) == ~(r > maxConcurrent \/ Len(q) = 0)
CanAdmit(r, q) == ~(r >= maxConcurrent \/ Len(q) = 0)

\* this.queue.shift()
QueueShift_lifo(q) == [task |-> q[Len(q)], rest |-> SubSeq(q, 1, Len(q) - 1)]
QueueShift(q) == [task |-> Head(q), rest |-> Tail(q)]

\* try { resolve(result) } catch (error) { reject(error) }
SettlePromise_swallow(o) == [kind |-> "ok", v |-> o.v]
SettlePromise(o) == o

\* finally { this.running-- }
RunningAfterSettle_leak(r, o) == IF o.kind = "err" THEN r ELSE r - 1
RunningAfterSettle(r, o) == r - 1

\* finally: setTimeout(() => this.process(), delay) when the queue is non-empty;
\* otherwise process() is called at once and returns at line 22 (empty queue)
ScheduleNext_never(q, tm) == tm
ScheduleNext(q, tm) == IF Len(q) > 0 THEN Append(tm, delayBetweenRequests) ELSE tm

BusySettle(q, prev) == IF Len(q) > 0 THEN 0 ELSE prev

\* process() called with the queue q, the running count r, the timers tm and the
\* task states st.  A task whose requestFn throws before it returns a promise
\* (behav[t] > 0, the error thrown) runs the catch and finally blocks inside
\* the same call.
Process(q, r, tm, st) ==
  IF ~CanAdmit(r, q)
  THEN /\ queue' = q
       /\ running' = r
       /\ timers' = tm
       /\ status' = st
       /\ UNCHANGED <<execResult, promise, invoked, startOrder, sinceBusySettle, lastStartGap>>
  ELSE LET sh == QueueShift(q)
           t == sh.task
           o == [kind |-> "err", v |-> behav[t]]
       IN /\ queue' = sh.rest
          /\ invoked' = [invoked EXCEPT ![t] = @ + 1]
          /\ startOrder' = Append(startOrder, t)
          /\ lastStartGap' = sinceBusySettle
          /\ IF behav[t] > 0
             THEN /\ running' = RunningAfterSettle(r + 1, o)
                  /\ execResult' = [execResult EXCEPT ![t] = o]
                  /\ promise' = [promise EXCEPT ![t] = SettlePromise(o)]
                  /\ timers' = ScheduleNext(sh.rest, tm)
                  /\ sinceBusySettle' = BusySettle(sh.rest, -1)
                  /\ status' = [st EXCEPT ![t] = "done"]
             ELSE /\ running' = r + 1
                  /\ timers' = tm
                  /\ sinceBusySettle' = -1
                  /\ status' = [st EXCEPT ![t] = "running"]
                  /\ UNCHANGED <<execResult, promise>>

\* add(requestFn): push, then process().  b = 0: requestFn returns a promise;
\* b > 0: requestFn throws the error b.
Add(t, b) ==
  /\ status[t] = "new"
  /\ \A u \in 1..(t - 1) : status[u] # "new"
  /\ behav' = [behav EXCEPT ![t] = b]
  /\ addOrder' = Append(addOrder, t)
  /\ Process(Append(queue, t), running, timers, [status EXCEPT ![t] = "queued"])
  /\ UNCHANGED <<cvars, pvars, avars>>

\* the promise awaited at line 30 settles with outcome o: resolve/reject, then
\* the finally block
Settle(t, o) ==
  /\ status[t] = "running"
  /\ execResult' = [execResult EXCEPT ![t] = o]
  /\ promise' = [promise EXCEPT ![t] = SettlePromise(o)]
  /\ running' = RunningAfterSettle(running, o)
  /\ timers' = ScheduleNext(queue, timers)
  /\ sinceBusySettle' = BusySettle(queue, sinceBusySettle)
  /\ status' = [status EXCEPT ![t] = "done"]
  /\ UNCHANGED <<queue, behav, invoked, addOrder, startOrder, lastStartGap>>
  /\ UNCHANGED <<cvars, pvars, avars>>

\* a setTimeout callback of line 39 comes due: process()
TimerFire ==
  /\ Len(timers) > 0
  /\ Head(timers) = 0
  /\ Process(queue, running, Tail(timers), status)
  /\ UNCHANGED <<behav, addOrder>>
  /\ UNCHANGED <<cvars, pvars, avars>>

Elapse(ms) == IF ms > TickMs THEN ms - TickMs ELSE 0

\* TickMs of time pass; a due timer fires before the clock moves on
Tick ==
  /\ Len(timers) > 0
  /\ Head(timers) > 0
  /\ timers' = [i \in 1..Len(timers) |-> Elapse(timers[i])]
  /\ sinceBusySettle' = IF sinceBusySettle < 0 THEN sinceBusySettle
                        ELSE IF sinceBusySettle + TickMs >= delayBetweenRequests
                             THEN delayBetweenRequests
                             ELSE sinceBusySettle + TickMs
  /\ UNCHANGED <<queue, running, status, behav, execResult, promise, invoked,
                 addOrder, startOrder, lastStartGap>>
  /\ UNCHANGED <<cvars, pvars, avars>>

(***************************************************************************)
(* Series cache: localStorage helpers                                      *)
(***************************************************************************)
\* JSON.parse(raw): throws on text that is not JSON; otherwise the object with
\* the fields it has
JsonParse(e) ==
  [throws |-> e.kind = "garbage",
   hasPoints |-> e.kind \in {"ok", "noexp"},
   hasExp |-> e.kind \in {"ok", "nopoints"} /\ e.exp # 0,
   points |-> e.points,
   exp |-> e.exp]

\* loadFromStorage(sym, r) on the stored item e at time t
LoadFromStorage_noExpField(e, t) ==
  IF e.kind = "absent" THEN NoPoints
  ELSE LET js == JsonParse(e)
       IN IF js.throws THEN NoPoints
          ELSE IF ~js.hasPoints THEN NoPoints
          ELSE IF js.hasExp /\ t > js.exp THEN NoPoints
          ELSE js.points
LoadFromStorage_noExpiry(e, t) ==
  IF e.kind = "absent" THEN NoPoints
  ELSE LET js == JsonParse(e)
       IN IF js.throws THEN NoPoints
          ELSE IF ~js.hasPoints \/ ~js.hasExp THEN NoPoints
          ELSE js.points
LoadFromStorage(e, t) ==
  IF e.kind = "absent" THEN NoPoints                         \* if (!raw) return null
  ELSE LET js == JsonParse(e)
       IN IF js.throws THEN NoPoints                         \* catch (_) { return null }
          ELSE IF ~js.hasPoints \/ ~js.hasExp THEN NoPoints  \* !js.points || !js.exp
          ELSE IF t > js.exp THEN NoPoints                   \* Date.now() > js.exp
          ELSE js.points

\* ttlMs of PredictPage.saveToStorage
PredictTtlMs(r, marketState) ==
  IF r = "1D"
  THEN (IF marketState = "open" THEN 1 * 60 * 1000 ELSE 12 * 60 * 60 * 1000)
  ELSE (IF r \in {"1W", "1M", "3M"} THEN 30 * 60 * 1000 ELSE 12 * 60 * 60 * 1000)

\* ttlMs of HomePage.saveToStorage
HomeTtlMs(r) ==
  IF r = "1D" THEN 5 * 60 * 1000
  ELSE (IF r \in {"1W", "1M", "3M"} THEN 30 * 60 * 1000 ELSE 12 * 60 * 60 * 1000)

TtlMs(pg, r, marketState) == IF pg = "predict" THEN PredictTtlMs(r, marketState) ELSE HomeTtlMs(r)

\* localStorage.setItem inside try { } catch (_) { }: ok = FALSE when setItem throws
SetItem_dropped(st, k, e, ok) == st
SetItem(st, k, e, ok) == IF ok THEN [st EXCEPT ![k] = e] ELSE st

\* saveToStorage(sym, r, points, marketState) of page pg
SaveToStorage(pg, st, sym, r, points, marketState, ok) ==
  SetItem(st, <<sym, r>>,
          [kind |-> "ok", points |-> points, exp |-> now + TtlMs(pg, r, marketState)], ok)

\* seriesCacheRef.current[r] = pts; saveToStorage(sym, r, pts, marketState)
\* by a closure of page pg
CacheWrite(pg, sym, r, pts, marketState, ok) ==
  /\ ok \/ quotaErrors < MaxQuotaErrors
  /\ quotaErrors' = IF ok THEN quotaErrors ELSE quotaErrors + 1
  /\ mem' = [mem EXCEPT ![r] = pts]
  /\ store' = SaveToStorage(pg, store, sym, r, pts, marketState, ok)
  /\ healed' = IF ok /\ store[<<sym, r>>].kind \in Malformed
               THEN healed \cup {<<sym, r>>} ELSE healed
  /\ lastWriteExp' = [lastWriteExp EXCEPT ![<<sym, r>>] = now + TtlMs(pg, r, marketState)]

NonEmpty(pts) == pts.n >= 1

StoreRead(sym, r) ==
  [sym |-> sym, r |-> r, tier |-> "store", result |-> LoadFromStorage(store[<<sym, r>>], now), at |-> now]

\* the hydrate effect: first non-empty of the stored 1D, 1W, 1M series
HydrateRanges == <<"1D", "1W", "1M">>
Hydratable(sym, r) == r \in Ranges /\ NonEmpty(LoadFromStorage(store[<<sym, r>>], now))
HydrateRange(sym) ==
  IF Hydratable(sym, HydrateRanges[1]) THEN HydrateRanges[1]
  ELSE IF Hydratable(sym, HydrateRanges[2]) THEN HydrateRanges[2]
  ELSE IF Hydratable(sym, HydrateRanges[3]) THEN HydrateRanges[3]
  ELSE ""

Hydrate(sym, m, ser, rng) ==
  LET r == HydrateRange(sym)
      c == LoadFromStorage(store[<<sym, r>>], now)
  IN IF r = "" THEN [mem |-> m, series |-> ser, range |-> rng]
     ELSE [mem |-> [m EXCEPT ![r] = c], series |-> c, range |-> r]

HydrateReads(sym) == {StoreRead(sym, r) : r \in {"1D", "1W", "1M"} \cap Ranges}

(***************************************************************************)
(* Series cache: the symbol effect (load), prefetch and range tabs          *)
(***************************************************************************)
NoIntr == [market |-> "", points |-> NoPoints]
\* no request is awaiting its response
Idle == loads = {} /\ prefetches = {} /\ clicks = {}
EmptyMem == [r \in Ranges |-> NoPoints]
PrefetchRanges == {"1W", "1M", "3M"} \cap Ranges

NewLoad(pg, sym, lfd) ==
  [page |-> pg, sym |-> sym, pc |-> "intr", intr |-> NoIntr, lfd |-> lfd, mounted |-> TRUE]

\* cleanup of the symbol effect: mounted = false in every earlier closure
Cleanup(ls) == {[l EXCEPT !.mounted = FALSE] : l \in ls}

\* a page is opened (route change or reload) once the requests of the page
\* before it have been answered: fresh component state, the hydrate effect,
\* then the symbol effect starts load(); the series side of the mount
MountPage(pg) ==
  /\ Idle
  /\ events' = events + 1
  /\ LET sym == IF pg = "predict" /\ lastSymbol # "" THEN lastSymbol ELSE "SPY"
         h == Hydrate(sym, EmptyMem, NoPoints, "1D")
     IN /\ page' = pg
        /\ selectedSymbol' = sym
        /\ mem' = h.mem
        /\ series' = h.series
        /\ range' = h.range
        /\ reads' = HydrateReads(sym)
        /\ loads' = {NewLoad(pg, sym, "null")}
  /\ intraday' = NoIntr
  /\ lastFullDate' = "null"
  /\ dataLoading' = (pg = "predict")
  /\ UNCHANGED <<now, market, store, lastSymbol, prefetches, clicks, advances,
                 quotaErrors, healed, lastWriteExp>>

\* handleSearch with a valid symbol
HandleSearch(sym) ==
  /\ events' = events + 1
  /\ lastSymbol' = IF page = "predict" THEN sym ELSE lastSymbol
  /\ selectedSymbol' = sym
  /\ IF sym = selectedSymbol
     THEN UNCHANGED <<mem, series, range, reads, loads, dataLoading>>
     ELSE /\ loads' = Cleanup(loads) \cup {NewLoad(page, sym, lastFullDate)}
          /\ dataLoading' = (page = "predict")
          /\ IF page = "predict"
             THEN LET h == Hydrate(sym, mem, series, range)
                  IN /\ mem' = h.mem
                     /\ series' = h.series
                     /\ range' = h.range
                     /\ reads' = HydrateReads(sym)
             ELSE UNCHANGED <<mem, series, range, reads>>
  /\ UNCHANGED <<qvars, pvars, avars>>
  /\ UNCHANGED <<now, market, store, page, intraday, lastFullDate, prefetches, clicks,
                 advances, quotaErrors, healed, lastWriteExp>>

Search(sym) == events < MaxEvents /\ HandleSearch(sym)

\* the tail of load() after its last await: the 1D write, setSeries, the
\* background prefetch, and (PredictPage) setLastFullDate, which re-runs the
\* effect when the date changes
LoadFinish(l, pts, ok) ==
  /\ CacheWrite(l.page, l.sym, "1D", pts,
                IF l.page = "predict" THEN l.intr.market ELSE "", ok)
  /\ series' = pts
  /\ prefetches' = prefetches \cup
       {[page |-> l.page, sym |-> l.sym, r |-> r, lfd |-> l.lfd] :
          r \in PrefetchRanges}
  /\ IF l.page = "predict" /\ NonEmpty(pts) /\ lastFullDate = "null"
     THEN /\ lastFullDate' = "set"
          /\ loads' = Cleanup(loads \ {l}) \cup {NewLoad("predict", selectedSymbol, "set")}
          /\ dataLoading' = TRUE
     ELSE /\ lastFullDate' = lastFullDate
          /\ loads' = loads \ {l}
          /\ dataLoading' = IF l.mounted THEN FALSE ELSE dataLoading

\* the clamp of a series to asOf / lastFullDate keeps n2 of its points
Clamped(pts, n2) == [pts EXCEPT !.n = n2]

\* getIntraday(selectedSymbol) of load() returns (ok, n points) or rejects
LoadIntraday(l, ok, n) ==
  /\ l \in loads /\ l.pc = "intr"
  /\ IF ok /\ ~l.mounted
     THEN loads' = loads \ {l} /\ UNCHANGED intraday
     ELSE IF ok
     THEN /\ intraday' = [market |-> market, points |-> [sym |-> l.sym, r |-> "1D", n |-> n, at |-> now]]
          /\ loads' = (loads \ {l}) \cup {[l EXCEPT !.pc = "ov", !.intr = intraday']}
     ELSE /\ loads' = (loads \ {l}) \cup {[l EXCEPT !.pc = "ov"]}
          /\ UNCHANGED intraday
  /\ UNCHANGED <<qvars, pvars, avars>>
  /\ UNCHANGED <<now, market, store, lastSymbol, page, selectedSymbol, range, series,
                 lastFullDate, dataLoading, mem, prefetches, clicks, events, advances,
                 quotaErrors, healed, lastWriteExp, reads>>

\* getOverview(selectedSymbol) of load() returns or rejects; with two or more
\* intraday points load() runs to its end, else it awaits getTimeSeries(.., '1D')
LoadOverview(l, ok, n2, stOk) ==
  /\ l \in loads /\ l.pc = "ov"
  /\ IF ok /\ ~l.mounted
     THEN /\ loads' = loads \ {l}
          /\ n2 = 0 /\ stOk
          /\ UNCHANGED <<store, mem, series, lastFullDate, dataLoading, prefetches,
                         quotaErrors, healed, lastWriteExp>>
     ELSE IF l.intr.points.n < 2
     THEN /\ loads' = (loads \ {l}) \cup {[l EXCEPT !.pc = "ts"]}
          /\ n2 = 0 /\ stOk
          /\ UNCHANGED <<store, mem, series, lastFullDate, dataLoading, prefetches,
                         quotaErrors, healed, lastWriteExp>>
     ELSE \* HomePage clamps to asOf when the market is open; PredictPage keeps
          \* the clamped series only if two or more points remain
          /\ IF l.page = "home" /\ l.intr.market = "open" THEN TRUE ELSE n2 = 2
          /\ LoadFinish(l, Clamped(l.intr.points, n2), stOk)
  /\ UNCHANGED <<qvars, pvars, avars>>
  /\ UNCHANGED <<now, market, lastSymbol, page, selectedSymbol, range, intraday,
                 clicks, events, advances, reads>>

\* the fallback getTimeSeries(selectedSymbol, '1D') of load() returns n points or rejects
LoadTimeSeries(l, ok, n, n2, stOk) ==
  /\ l \in loads /\ l.pc = "ts"
  /\ IF ok /\ ~l.mounted
     THEN /\ loads' = loads \ {l}
          /\ n = 0 /\ n2 = 0 /\ stOk
          /\ UNCHANGED <<store, mem, series, lastFullDate, dataLoading, prefetches,
                         quotaErrors, healed, lastWriteExp>>
     ELSE /\ IF ok THEN TRUE ELSE n = 0
          /\ IF l.intr # NoIntr /\ (l.page = "home" => l.intr.market = "open")
             THEN IF l.page = "home" THEN n2 <= n ELSE n2 = n
             ELSE n2 = n
          /\ LoadFinish(l, [sym |-> l.sym, r |-> "1D", n |-> n2, at |-> now], stOk)
  /\ UNCHANGED <<qvars, pvars, avars>>
  /\ UNCHANGED <<now, market, lastSymbol, page, selectedSymbol, range, intraday,
                 clicks, events, advances, reads>>

\* a background getTimeSeries(selectedSymbol, r) returns n points (n2 after the
\* lastFullDate clamp of PredictPage) or rejects
Prefetch(b, ok, n, n2, stOk) ==
  /\ b \in prefetches
  /\ prefetches' = prefetches \ {b}
  /\ IF ok
     THEN /\ IF b.page = "predict" /\ b.lfd # "null" /\ n > 0 THEN n2 <= n ELSE n2 = n
          /\ CacheWrite(b.page, b.sym, b.r, [sym |-> b.sym, r |-> b.r, n |-> n2, at |-> now], "", stOk)
     ELSE /\ n = 0 /\ n2 = 0 /\ stOk
          /\ UNCHANGED <<store, mem, quotaErrors, healed, lastWriteExp>>
  /\ UNCHANGED <<qvars, pvars, avars>>
  /\ UNCHANGED <<now, market, lastSymbol, page, selectedSymbol, range, series, intraday,
                 lastFullDate, dataLoading, loads, clicks, events, advances, reads>>

\* the cache lookup of a range-tab click: seriesCacheRef first, then localStorage
MemHit(r) == NonEmpty(mem[r])
Lookup(sym, r) == IF MemHit(r) THEN mem[r] ELSE LoadFromStorage(store[<<sym, r>>], now)
LookupReads(sym, r) ==
  {[sym |-> sym, r |-> r, tier |-> "mem",
    result |-> IF MemHit(r) THEN mem[r] ELSE NoPoints, at |-> now]}
  \cup (IF MemHit(r) THEN {} ELSE {StoreRead(sym, r)})

\* does the click handler consult the caches for range r?
PredictUsesCache(r) == ~(r = "1D" /\ intraday.market = "open")
HomeUsesCache_never(r) == FALSE
HomeUsesCache(r) == r # "1D"
UsesCache(pg, r) == IF pg = "predict" THEN PredictUsesCache(r) ELSE HomeUsesCache(r)

\* RangeTab onClick up to its return or its await
ClickTab(r) ==
  /\ events' = events + 1
  /\ intraday # NoIntr /\ ~dataLoading
  /\ range' = r
  /\ IF UsesCache(page, r)
     THEN /\ reads' = LookupReads(selectedSymbol, r)
          /\ LET cached == Lookup(selectedSymbol, r)
             IN IF NonEmpty(cached)
                THEN /\ mem' = [mem EXCEPT ![r] = cached]
                     /\ series' = cached
                     /\ UNCHANGED clicks
                ELSE /\ clicks' = clicks \cup
                          {[page |-> page, sym |-> selectedSymbol, r |-> r,
                            market |-> intraday.market]}
                     /\ UNCHANGED <<mem, series>>
     ELSE /\ clicks' = clicks \cup
               {[page |-> page, sym |-> selectedSymbol, r |-> r,
                 market |-> intraday.market]}
          /\ UNCHANGED <<mem, series, reads>>
  /\ UNCHANGED <<qvars, pvars, avars>>
  /\ UNCHANGED <<now, market, store, lastSymbol, page, selectedSymbol, intraday,
                 lastFullDate, dataLoading, loads, prefetches, advances,
                 quotaErrors, healed, lastWriteExp>>

Click(r) == events < MaxEvents /\ ClickTab(r)

\* the request of a range-tab click returns n points (n2 after the asOf clamp
\* of the 1D series) or rejects
ClickResp(c, ok, n, n2, stOk) ==
  /\ c \in clicks
  /\ clicks' = clicks \ {c}
  /\ IF ok
     THEN /\ IF c.r = "1D" /\ (c.page = "home" => c.market = "open")
             THEN n2 <= n ELSE n2 = n
          /\ CacheWrite(c.page, c.sym, c.r, [sym |-> c.sym, r |-> c.r, n |-> n2, at |-> now],
                        IF c.page = "predict" THEN c.market ELSE "", stOk)
          /\ series' = [sym |-> c.sym, r |-> c.r, n |-> n2, at |-> now]
     ELSE /\ n = 0 /\ n2 = 0 /\ stOk
          /\ UNCHANGED <<store, mem, series, quotaErrors, healed, lastWriteExp>>
  /\ UNCHANGED <<qvars, pvars, avars>>
  /\ UNCHANGED <<now, market, lastSymbol, page, selectedSymbol, range, intraday,
                 lastFullDate, dataLoading, loads, prefetches, events, advances, reads>>

(***************************************************************************)
(* Series cache: environment                                               *)
(***************************************************************************)
\* the clock moves by one ms, by the TTL of the short ranges or by the longest
\* TTL.  Requests are answered at once at this scale: the clock moves while no
\* request is pending.
AdvanceSteps == {1, 30 * 60 * 1000, 12 * 60 * 60 * 1000}

Advance(d) ==
  /\ advances < MaxAdvances
  /\ Idle
  /\ advances' = advances + 1
  /\ now' = now + d
  /\ UNCHANGED <<qvars, pvars, avars>>
  /\ UNCHANGED <<market, store, lastSymbol, page, selectedSymbol, range, series, intraday,
                 lastFullDate, dataLoading, mem, loads, prefetches, clicks, events,
                 quotaErrors, healed, lastWriteExp, reads>>

\* the exchange opens or closes
MarketFlip ==
  /\ events < MaxEvents
  /\ events' = events + 1
  /\ market' = IF market = "open" THEN "closed" ELSE "open"
  /\ UNCHANGED <<qvars, pvars, avars>>
  /\ UNCHANGED <<now, store, lastSymbol, page, selectedSymbol, range, series, intraday,
                 lastFullDate, dataLoading, mem, loads, prefetches, clicks,
                 advances, quotaErrors, healed, lastWriteExp, reads>>

\* a malformed item under a series key: text that is not JSON, or an object
\* without points or without exp
MalformedItem(k, kind) ==
  [kind |-> kind,
   points |-> IF kind = "noexp" THEN [sym |-> k[1], r |-> k[2], n |-> 2, at |-> 0] ELSE NoPoints,
   exp |-> IF kind = "nopoints" THEN 12 * 60 * 60 * 1000 ELSE 0]

\* localStorage when the app opens: empty, or malformed items of the three
\* kinds under the keys of the default symbol
EmptyStore == [k \in Keys |-> Absent]
MalformedKind(r) == IF r = "1D" THEN "garbage" ELSE IF r = "1W" THEN "nopoints" ELSE "noexp"
MalformedStore ==
  [k \in Keys |-> IF k[1] = "SPY" THEN MalformedItem(k, MalformedKind(k[2])) ELSE Absent]
InitStores == {EmptyStore, MalformedStore}


(***************************************************************************)
(* Predictions: the backend's result and its derivation (getPredictions)   *)
(***************************************************************************)
\* JavaScript values: a number, NaN, undefined
Num(v) == [t |-> "num", v |-> v]
NaN == [t |-> "nan", v |-> 0]
Undef == [t |-> "undef", v |-> 0]

\* the body { prediction, predictions, accuracy, historicalData } of a 200
\* response or of a done job, by what getPredictions reads of it:
\*   hist        Number(price) of the last element of historicalData (Undef: no element)
\*   baseline    pred1d.baseline
\*   multi       predictions['1_day'], ['2_day'], ['1_week'] are present
\*   prediction  data.prediction is present
HistLast == {Undef, NaN, Num(0), Num(100)}
Baselines == {Undef, Num(90)}
Accuracies == {3, 95}
Bodies == [hist : HistLast, baseline : Baselines, multi : BOOLEAN,
           accuracy : Accuracies, prediction : {TRUE}]
\* the body of a response that is not a result
ErrorBody == [hist |-> Undef, baseline |-> Undef, multi |-> FALSE, accuracy |-> 0,
              prediction |-> FALSE]

Horizons == {"1_day", "2_day", "1_week"}
\* the backend's own price and change_percent of a horizon
BackendPrice(h) == IF h = "1_day" THEN 101 ELSE IF h = "2_day" THEN 102 ELSE 107
BackendChange(h) == [t |-> "backend", of |-> h]
NoPred == [def |-> FALSE, price |-> 0, change_percent |-> Undef, baseline |-> Undef]

\* predictions[h] || data.prediction
Pred(data, h) ==
  IF data.multi
  THEN [def |-> TRUE, price |-> BackendPrice(h), change_percent |-> BackendChange(h),
        baseline |-> IF h = "1_day" THEN data.baseline ELSE Undef]
  ELSE IF data.prediction
  THEN [def |-> TRUE, price |-> 110, change_percent |-> BackendChange("prediction"),
        baseline |-> data.baseline]
  ELSE NoPred

TypeofNumber(x) == x.t \in {"num", "nan"}
\* !x is false and isFinite(x)
TruthyFinite(x) == x.t = "num" /\ x.v # 0

\* const lastPrice = ...
LastPrice(data) ==
  IF data.hist # Undef THEN data.hist
  ELSE IF Pred(data, "1_day").baseline.t = "num" THEN Pred(data, "1_day").baseline
  ELSE Undef

\* a price: value v, or v * (1 + (Math.random() - 0.5) * pct / 1000) by the
\* draw of the call of vary() at the named place of model m
Exact(v) == [v |-> v, pct |-> 0, draw |-> <<1, "none">>]
Vary(v, pct, m, place) == [v |-> v, pct |-> pct, draw |-> <<m, place>>]

\* withChange(price): ((price - lastPrice) / lastPrice) * 100, as the expression
WithChange_ownBase(price, lastPrice) ==
  IF ~TruthyFinite(lastPrice) THEN Undef
  ELSE [t |-> "pct", price |-> price, base |-> price.v]
WithChange(price, lastPrice) ==
  IF ~TruthyFinite(lastPrice) THEN Undef
  ELSE [t |-> "pct", price |-> price, base |-> lastPrice.v]

ModelIds == 1..5
\* vary(base, pct) of each model, in thousandths; its accuracy offset
VariancePct(m) == IF m = 1 THEN 0 ELSE IF m = 2 THEN 20 ELSE IF m = 3 THEN 15
                  ELSE IF m = 4 THEN 10 ELSE 25
AccuracyDelta(m) == IF m = 1 THEN 0 ELSE IF m = 2 THEN -2 ELSE IF m = 3 THEN -4
                    ELSE IF m = 4 THEN -1 ELSE -7

\* predictions_1d / _2d / _1w of model m
HorizonOf(data, m, h) ==
  LET pred == Pred(data, h)
      lastPrice == LastPrice(data)
  IN IF m = 1
     THEN [price |-> Exact(pred.price),
           change_percent |-> IF TypeofNumber(lastPrice)
                              THEN WithChange(Exact(pred.price), lastPrice)
                              ELSE pred.change_percent]
     ELSE LET price == Vary(pred.price, VariancePct(m), m, h)
          IN [price |-> price, change_percent |-> WithChange(price, lastPrice)]

\* modelPredictions[m]
ModelOf(data, m) ==
  LET pred1w == Pred(data, "1_week")
      lastPrice == LastPrice(data)
  IN [prediction |-> IF m = 1 THEN Exact(pred1w.price)
                     ELSE Vary(pred1w.price, VariancePct(m), m, "prediction"),
      accuracy |-> data.accuracy + AccuracyDelta(m),
      change_percent |->
        IF TypeofNumber(lastPrice)
        THEN WithChange(IF m = 1 THEN Exact(pred1w.price)
                        ELSE Vary(pred1w.price, VariancePct(m), m, "change_percent"),
                        lastPrice)
        ELSE pred1w.change_percent,
      horizon |-> [h \in Horizons |-> HorizonOf(data, m, h)]]

\* the value getPredictions returns for data; throws a TypeError when
\* data.prediction is missing (pred1w.price, data.prediction.date)
Thrown == [throws |-> TRUE]
Derive(data) ==
  IF ~data.prediction THEN Thrown
  ELSE [throws |-> FALSE,
        models |-> [m \in ModelIds |-> ModelOf(data, m)],
        multiTimeframe |-> [h \in Horizons |-> Pred(data, h)],
        \* historicalData and nextDate are copied from data
        data |-> data]

(***************************************************************************)
(* Predictions: fetchPredictions, getPredictions, makeRequest, pollJob     *)
(***************************************************************************)
\* HTTP status of a response; 0 stands for fetch() rejecting
SubmitStatuses == {0, 200, 202, 401, 500}
PollStatuses == {0, 200, 401, 500}
JobErrors == {"model crashed", "no data"}

NoOutcome == [kind |-> "none", msg |-> <<>>]
NoStored == [symbol |-> "", at |-> -1]

IsUnauthorized(code) == code = 401
NeedsPolling_always(code) == code \in {200, 202}
NeedsPolling(code) == code = 202
ResponseOk_any(code) == TRUE
ResponseOk(code) == code \in 200..299
IsTerminal_failedOnly(st) == st = "failed"
IsTerminal(st) == st \in {"done", "failed"}
\* while (Date.now() - start < timeoutMs)
PollLoopContinues_early(el) == el + intervalMs < timeoutMs
PollLoopContinues(el) == el < timeoutMs
\* new Error(`Job not completed: ${respData.code}`)
JobNotCompleted(st) == <<"Job not completed: ", st>>

\* how the call ends: the promise of getPredictions settles and
\* fetchPredictions runs to its end
Settled(o, pd, stored, err) ==
  /\ ppc' = "settled"
  /\ outcome' = o
  /\ predictionsData' = pd
  /\ lastPredModelData' = stored
  /\ predError' = err
  /\ UNCHANGED <<waited, timer, pollCount, pollGap, prevLatency, lastPollAt>>

\* getPredictions throws; fetchPredictions: setError(...)
Reject(msg) ==
  Settled([kind |-> "rejected", msg |-> msg], predictionsData, lastPredModelData, TRUE)

\* getPredictions derives its value from data; fetchPredictions:
\* setPredictionsData(data), localStorage.setItem('sh:lastPredModelData', ...)
Resolve(data) ==
  LET out == Derive(data)
  IN IF out.throws THEN Reject(<<"TypeError">>)
     ELSE Settled([kind |-> "resolved", msg |-> <<>>, out |-> out], out,
                  [symbol |-> selectedSymbol, at |-> now, models |-> out.models],
                  predError)

\* the loop test of pollJob at el ms after start, then either the next request
\* to /jobs or return { status: 'timeout' }
EnterLoop(el) ==
  IF PollLoopContinues(el)
  THEN /\ ppc' = "poll"
       /\ waited' = 0
       /\ pollCount' = pollCount + 1
       /\ pollGap' = IF pollCount = 0 THEN -1 ELSE now - lastPollAt
       /\ lastPollAt' = now
       /\ UNCHANGED <<outcome, predictionsData, lastPredModelData, predError, timer,
                      prevLatency>>
  ELSE Reject(JobNotCompleted("timeout"))

\* handleUnauthorized() when the code is 401
AfterUnauthorized(code) ==
  /\ token' = IF IsUnauthorized(code) THEN FALSE ELSE token
  /\ location' = IF IsUnauthorized(code) THEN "/#/login" ELSE location

\* the Predict button: fetchPredictions up to await getPredictions -> makeRequest
FetchPredictions ==
  /\ ppc = "idle"
  /\ ppc' = "submit"
  /\ predError' = FALSE
  /\ outcome' = NoOutcome
  /\ submitResp' = -1
  /\ pollCount' = 0
  /\ pollGap' = -1
  /\ prevLatency' = 0
  /\ seen' = {}
  /\ job' = "none"
  /\ UNCHANGED <<start, waited, timer, jobError, respData, token, location,
                 predictionsData, lastPredModelData, lastPollAt>>
  /\ UNCHANGED <<qvars, cvars, avars>>

\* the response to GET /predictions/{symbol}: status code, and data as its body
SubmitResp(code, data) ==
  /\ ppc = "submit"
  /\ data \in Bodies <=> code = 200
  /\ submitResp' = code
  /\ AfterUnauthorized(code)
  /\ IF code = 0 THEN Reject(<<"fetch failed">>) /\ UNCHANGED <<start, job>>
     ELSE IF IsUnauthorized(code) THEN Reject(<<"Unauthorized">>) /\ UNCHANGED <<start, job>>
     ELSE IF NeedsPolling(code)
     THEN /\ job' = IF job = "none" THEN "queued" ELSE job
          /\ start' = now
          /\ EnterLoop(0)
     ELSE IF ~ResponseOk(code)
     THEN Reject(<<"Failed to fetch predictions">>) /\ UNCHANGED <<start, job>>
     ELSE Resolve(data) /\ UNCHANGED <<start, job>>
  /\ respData' = IF data \in Bodies THEN data ELSE respData
  /\ UNCHANGED <<jobError, seen>>
  /\ UNCHANGED <<qvars, cvars, avars>>

\* the response to GET /jobs/{jobId}: status code, with the job's state as its
\* body: result data when done, error message err when failed
PollResp(code, data, err) ==
  /\ ppc = "poll"
  /\ IF ResponseOk(code) /\ job = "done" THEN data \in Bodies ELSE data = ErrorBody
  /\ IF ResponseOk(code) /\ job = "failed" THEN err \in JobErrors ELSE err = ""
  /\ respData' = IF data \in Bodies THEN data ELSE respData
  /\ jobError' = IF err \in JobErrors THEN err ELSE jobError
  /\ AfterUnauthorized(code)
  /\ IF code = 0 THEN Reject(<<"fetch failed">>) /\ UNCHANGED seen
     ELSE IF IsUnauthorized(code) THEN Reject(<<"Unauthorized">>) /\ UNCHANGED seen
     ELSE IF ~ResponseOk(code) THEN Reject(<<"Failed to poll job">>) /\ UNCHANGED seen
     ELSE /\ seen' = seen \cup {job}
          /\ IF IsTerminal(job)
             THEN IF job = "done" THEN Resolve(data)
                  ELSE Reject(JobNotCompleted(job))
             ELSE /\ ppc' = "sleep"
                  /\ timer' = intervalMs
                  /\ prevLatency' = waited
                  /\ UNCHANGED <<outcome, predictionsData, lastPredModelData, predError,
                                 waited, pollCount, pollGap, lastPollAt>>
  /\ UNCHANGED <<start, job, submitResp>>
  /\ UNCHANGED <<qvars, cvars, avars>>

\* setTimeout(res, intervalMs) fires: back to the loop test
SleepDone ==
  /\ ppc = "sleep" /\ timer = 0
  /\ EnterLoop(now - start)
  /\ UNCHANGED <<start, job, jobError, respData, token, location, submitResp, seen>>
  /\ UNCHANGED <<qvars, cvars, avars>>

\* time passes while a request to /jobs is in flight or pollJob sleeps
PTick ==
  /\ \/ ppc = "poll" /\ waited < MaxLatency
     \/ ppc = "sleep" /\ timer > 0
  /\ LET d == IF ppc = "sleep" /\ timer < PTickMs THEN timer ELSE PTickMs
     IN /\ now' = now + d
        /\ waited' = IF ppc = "poll" THEN waited + d ELSE waited
        /\ timer' = IF ppc = "sleep" THEN timer - d ELSE timer
  /\ UNCHANGED <<ppc, start, job, jobError, respData, token, location, predictionsData,
                 predError, lastPredModelData, outcome, submitResp, pollCount,
                 pollGap, prevLatency, lastPollAt, seen>>
  /\ UNCHANGED <<qvars, cfixed, avars>>

\* the backend works on the job: queued, running, then done, failed or timeout
JobStep(st) ==
  /\ ppc \in {"poll", "sleep"}
  /\ \/ job = "queued" /\ st = "running"
     \/ job = "running" /\ st \in {"done", "failed", "timeout"}
  /\ job' = st
  /\ UNCHANGED <<ppc, start, waited, timer, jobError, respData, token, location,
                 predictionsData, predError, lastPredModelData, outcome, submitResp,
                 pollCount, pollGap, prevLatency, lastPollAt, seen>>
  /\ UNCHANGED <<qvars, cvars, avars>>

(***************************************************************************)
(* PredictPage: the predictions restored when the page is mounted          *)
(***************************************************************************)
\* if (js && js.symbol && js.models) of the restore effect
HasStored(js) == js.symbol # ""

\* setPredictionsData({ models: js.models, historicalData: [] })
Restored(js) == [throws |-> FALSE, models |-> js.models, historicalData |-> <<>>]

\* the predictions side of a mount: fresh state (predictionsData null, no
\* error, the Predict button idle), then the restore effect of PredictPage
RestoreEffect(pg) ==
  /\ ppc \in {"idle", "settled"}
  /\ ppc' = "idle"
  /\ predError' = FALSE
  /\ predictionsData' = IF pg = "predict" /\ HasStored(lastPredModelData)
                        THEN Restored(lastPredModelData)
                        ELSE Thrown
  /\ UNCHANGED <<start, waited, timer, job, jobError, respData, token, location,
                 lastPredModelData, outcome, submitResp, pollCount, pollGap,
                 prevLatency, lastPollAt, seen>>

\* a page is mounted: route change or reload
Mount(pg) == MountPage(pg) /\ RestoreEffect(pg) /\ UNCHANGED <<qvars, avars>>

Navigate(pg) == events < MaxEvents /\ Mount(pg)

\* the browser reloads PredictPage
Reload == events < MaxRaceEvents /\ Mount("predict")

(***************************************************************************)
(* Authentication: AuthProvider, ProtectedRoute, the functions of api.js   *)
(***************************************************************************)
Routes == {"/#/", "/#/login", "/#/predict"}
\* the functions of api.js that call the backend, and the status codes of a
\* response (0: fetch rejects)
ApiFunctions == {"getPredictions", "pollJob", "getStockData", "getApiStatus",
                 "getIntraday", "getTimeSeries", "getTickerData", "getNews", "getOverview"}
ApiStatuses == {0, 200, 401, 500}
NoCall == [fn |-> "", code |-> -1, error |-> "", stored |-> TRUE]

\* does the function send its request through makeRequest?
UsesMakeRequest(fn) == fn \in {"getPredictions", "pollJob"}

\* the error a function of api.js throws for a response with this status
\* ("": it returns)
ApiError(fn, code) ==
  IF code = 0 THEN "TypeError: Failed to fetch"
  ELSE IF UsesMakeRequest(fn) /\ IsUnauthorized(code) THEN "Unauthorized"
  ELSE IF ResponseOk(code) THEN ""
  ELSE IF fn = "getPredictions" THEN "Failed to fetch predictions"
  ELSE IF fn = "pollJob" THEN "Failed to poll job"
  ELSE IF fn \in {"getTickerData", "getNews"} THEN "HTTP status"
  ELSE "failed to fetch"

\* isAuthenticated(): !!token && !!user
IsAuthenticated == authToken /\ authUser

\* what ProtectedRoute renders
ProtectedRoute ==
  IF authLoading THEN "loading"
  ELSE IF ~IsAuthenticated THEN "redirect"
  ELSE "children"

\* the route after rendering at loc: ProtectedRoute renders
\* <Navigate to="/login" replace /> at /predict when it is not loading and
\* isAuthenticated() is false
Routed(loc, loading, authenticated) ==
  IF loc = "/#/predict" /\ ~loading /\ ~authenticated THEN "/#/login" ELSE loc

\* the document is loaded at route loc: AuthProvider mounts with fresh state
\* and its mount effect reads the stored token
AuthMount(loc) ==
  /\ location' = Routed(loc, token, FALSE)
  /\ authUser' = FALSE
  /\ authToken' = token
  /\ authLoading' = token
  /\ apc' = IF token THEN "verify" ELSE "idle"
  /\ UNCHANGED <<token, lastApi>>

\* verifyToken: the response of /auth/me (ok), or a non-2xx status or a
\* rejected fetch
VerifyResp(ok) ==
  /\ apc \in {"verify", "loginVerify"}
  /\ apc' = "idle"
  /\ authLoading' = FALSE
  /\ IF ok
     THEN authUser' = TRUE /\ authToken' = TRUE /\ UNCHANGED token
     ELSE token' = FALSE /\ authToken' = FALSE /\ authUser' = FALSE
  /\ location' = Routed(location, FALSE, ok)
  /\ UNCHANGED lastApi

\* login(usernameOrEmail, password) up to its await of /auth/login
Login ==
  /\ apc = "idle"
  /\ location = "/#/login"
  /\ apc' = "login"
  /\ UNCHANGED <<token, location, authToken, authUser, authLoading, lastApi>>

\* the response of /auth/login: the token is stored and verifyToken is called
LoginResp(ok) ==
  /\ apc = "login"
  /\ IF ok
     THEN token' = TRUE /\ authToken' = TRUE /\ apc' = "loginVerify"
     ELSE apc' = "idle" /\ UNCHANGED <<token, authToken>>
  /\ UNCHANGED <<location, authUser, authLoading, lastApi>>

\* logout() of the NavBar button, shown while isAuthenticated()
Logout ==
  /\ IsAuthenticated
  /\ token' = FALSE
  /\ authToken' = FALSE
  /\ authUser' = FALSE
  /\ location' = "/#/"
  /\ UNCHANGED <<authLoading, apc, lastApi>>

\* the user follows a link of the app or edits the hash
GoTo(loc) ==
  /\ location' = Routed(loc, authLoading, IsAuthenticated)
  /\ UNCHANGED <<token, authToken, authUser, authLoading, apc, lastApi>>

\* a function of api.js is called and its request is answered with status
\* code.  window.location.href = '/#/login' of handleUnauthorized changes only
\* the hash when the app is served at the path / (sameDoc); otherwise it loads
\* another document and the state of AuthProvider is lost.
ApiCall(fn, code, sameDoc) ==
  /\ UsesMakeRequest(fn) => location = "/#/predict" /\ ProtectedRoute = "children"
  /\ IF UsesMakeRequest(fn)
     THEN AfterUnauthorized(code)
     ELSE UNCHANGED <<token, location>>
  /\ lastApi' = [fn |-> fn, code |-> code, error |-> ApiError(fn, code), stored |-> token']
  /\ IF UsesMakeRequest(fn) /\ IsUnauthorized(code) /\ ~sameDoc
     THEN /\ authUser' = FALSE
          /\ authToken' = FALSE
          /\ authLoading' = FALSE
          /\ apc' = "idle"
     ELSE UNCHANGED <<authToken, authUser, authLoading, apc>>

\* a signed-in user on the Predict page
AInit ==
  /\ authToken = TRUE
  /\ authUser = TRUE
  /\ authLoading = FALSE
  /\ apc = "idle"
  /\ lastApi = NoCall

PInit ==
  /\ ppc = "idle"
  /\ start = 0
  /\ waited = 0
  /\ timer = 0
  /\ job = "none"
  /\ jobError = ""
  /\ respData = ErrorBody
  /\ token = TRUE
  /\ location = "/#/predict"
  /\ predictionsData = Thrown
  /\ predError = FALSE
  /\ lastPredModelData = NoStored
  /\ outcome = NoOutcome
  /\ submitResp = -1
  /\ pollCount = 0
  /\ pollGap = -1
  /\ prevLatency = 0
  /\ lastPollAt = 0
  /\ seen = {}

\* HomePage mounts while the market is open or closed: default symbol, the
\* hydrate effect, then the symbol effect starts load()
CInit ==
  /\ now = 0
  /\ market \in {"open", "closed"}
  /\ store \in InitStores
  /\ lastSymbol = ""
  /\ page = "home"
  /\ selectedSymbol = "SPY"
  /\ range = Hydrate("SPY", EmptyMem, NoPoints, "1D").range
  /\ series = Hydrate("SPY", EmptyMem, NoPoints, "1D").series
  /\ intraday = NoIntr
  /\ lastFullDate = "null"
  /\ dataLoading = FALSE
  /\ mem = Hydrate("SPY", EmptyMem, NoPoints, "1D").mem
  /\ loads = {NewLoad("home", "SPY", "null")}
  /\ prefetches = {}
  /\ clicks = {}
  /\ events = 0
  /\ advances = 0
  /\ quotaErrors = 0
  /\ healed = {}
  /\ lastWriteExp = [k \in Keys |-> -1]
  /\ reads = HydrateReads("SPY")

QInit ==
  /\ queue = <<>>
  /\ running = 0
  /\ timers = <<>>
  /\ status = [t \in Tasks |-> "new"]
  /\ behav = [t \in Tasks |-> 0]
  /\ execResult = [t \in Tasks |-> NoResult]
  /\ promise = [t \in Tasks |-> NoResult]
  /\ invoked = [t \in Tasks |-> 0]
  /\ addOrder = <<>>
  /\ startOrder = <<>>
  /\ sinceBusySettle = -1
  /\ lastStartGap = -1

Init == QInit /\ CInit /\ store = EmptyStore /\ market = "closed" /\ PInit /\ AInit

CacheInit == QInit /\ CInit /\ PInit /\ AInit

\* PredictPage is mounted with nothing cached and its load() finished
PollInit ==
  /\ QInit
  /\ now = 0
  /\ market = "closed"
  /\ store = EmptyStore
  /\ lastSymbol = ""
  /\ page = "predict"
  /\ selectedSymbol = "SPY"
  /\ range = "1D"
  /\ series = NoPoints
  /\ intraday = NoIntr
  /\ lastFullDate = "null"
  /\ dataLoading = FALSE
  /\ mem = EmptyMem
  /\ loads = {}
  /\ prefetches = {}
  /\ clicks = {}
  /\ events = 0
  /\ advances = 0
  /\ quotaErrors = 0
  /\ healed = {}
  /\ lastWriteExp = [k \in Keys |-> -1]
  /\ reads = {}
  /\ PInit /\ AInit

Next ==
  \/ \E t \in Tasks, b \in 0..NValues : Add(t, b)
  \/ \E t \in Tasks, o \in Outcomes : Settle(t, o)
  \/ TimerFire
  \/ Tick

Spec == Init /\ [][Next]_vars

\* every started executor eventually settles (the promise of requestFn is not
\* left pending), time passes and due setTimeout callbacks run
Fairness ==
  /\ \A t \in Tasks : WF_vars(\E o \in LiveOutcomes : Settle(t, o))
  /\ WF_vars(TimerFire)
  /\ WF_vars(Tick)

\* the queue with one value per kind of outcome: which value a request
\* resolves or rejects with has no part in the scheduling
LiveNext ==
  \/ \E t \in Tasks, b \in 0..1 : Add(t, b)
  \/ \E t \in Tasks, o \in LiveOutcomes : Settle(t, o)
  \/ TimerFire
  \/ Tick

SpecLive == Init /\ [][LiveNext]_vars /\ Fairness

CacheNext ==
  \/ \E pg \in Pages : Navigate(pg)
  \/ \E sym \in Symbols : Search(sym)
  \/ \E r \in Ranges : Click(r)
  \/ \E l \in loads, ok \in BOOLEAN, n \in Lengths : LoadIntraday(l, ok, n)
  \/ \E l \in loads, ok, stOk \in BOOLEAN, n2 \in Lengths : LoadOverview(l, ok, n2, stOk)
  \/ \E l \in loads, ok, stOk \in BOOLEAN, n, n2 \in Lengths : LoadTimeSeries(l, ok, n, n2, stOk)
  \/ \E b \in prefetches, ok, stOk \in BOOLEAN, n, n2 \in Lengths : Prefetch(b, ok, n, n2, stOk)
  \/ \E c \in clicks, ok, stOk \in BOOLEAN, n, n2 \in Lengths : ClickResp(c, ok, n, n2, stOk)
  \/ \E d \in AdvanceSteps : Advance(d)
  \/ MarketFlip

\* PredictPage open on SPY with nothing stored, its first load() in flight;
\* the user searches and clicks range tabs while responses are outstanding
RaceInit ==
  /\ QInit /\ PInit /\ AInit
  /\ now = 0
  /\ market = "closed"
  /\ store = EmptyStore
  /\ lastSymbol = ""
  /\ page = "predict"
  /\ selectedSymbol = "SPY"
  /\ range = "1D"
  /\ series = NoPoints
  /\ intraday = NoIntr
  /\ lastFullDate = "null"
  /\ dataLoading = TRUE
  /\ mem = EmptyMem
  /\ loads = {NewLoad("predict", "SPY", "null")}
  /\ prefetches = {}
  /\ clicks = {}
  /\ events = 0
  /\ advances = 0
  /\ quotaErrors = 0
  /\ healed = {}
  /\ lastWriteExp = [k \in Keys |-> -1]
  /\ reads = HydrateReads("SPY")

RaceSearch(sym) == events < MaxRaceEvents /\ HandleSearch(sym)
RaceClick(r) == events < MaxRaceEvents /\ ClickTab(r)

RaceNext ==
  \/ \E sym \in Symbols : RaceSearch(sym)
  \/ \E r \in Ranges : RaceClick(r)
  \/ \E l \in loads, ok \in BOOLEAN, n \in Lengths : LoadIntraday(l, ok, n)
  \/ \E l \in loads, ok, stOk \in BOOLEAN, n2 \in Lengths : LoadOverview(l, ok, n2, stOk)
  \/ \E l \in loads, ok, stOk \in BOOLEAN, n, n2 \in Lengths : LoadTimeSeries(l, ok, n, n2, stOk)
  \/ \E b \in prefetches, ok, stOk \in BOOLEAN, n, n2 \in Lengths : Prefetch(b, ok, n, n2, stOk)
  \/ \E c \in clicks, ok, stOk \in BOOLEAN, n, n2 \in Lengths : ClickResp(c, ok, n, n2, stOk)

SpecRace == RaceInit /\ [][RaceNext]_vars

\* the app is opened at its landing page, with or without a stored token
AuthInit ==
  /\ QInit /\ CInit /\ store = EmptyStore /\ market = "closed"
  /\ ppc = "idle" /\ start = 0 /\ waited = 0 /\ timer = 0 /\ job = "none"
  /\ jobError = "" /\ respData = ErrorBody
  /\ token \in BOOLEAN
  /\ location = "/#/"
  /\ predictionsData = Thrown /\ predError = FALSE /\ lastPredModelData = NoStored
  /\ outcome = NoOutcome /\ submitResp = -1 /\ pollCount = 0 /\ pollGap = -1
  /\ prevLatency = 0 /\ lastPollAt = 0 /\ seen = {}
  /\ authUser = FALSE
  /\ authToken = token
  /\ authLoading = token
  /\ apc = (IF token THEN "verify" ELSE "idle")
  /\ lastApi = NoCall

AuthFrame ==
  UNCHANGED <<qvars, cvars, ppc, start, waited, timer, job, jobError, respData,
              predictionsData, predError, lastPredModelData, outcome, submitResp,
              pollCount, pollGap, prevLatency, lastPollAt, seen>>

AuthNext ==
  \/ \E loc \in Routes : AuthMount(loc) /\ AuthFrame
  \/ \E ok \in BOOLEAN : VerifyResp(ok) /\ AuthFrame
  \/ Login /\ AuthFrame
  \/ \E ok \in BOOLEAN : LoginResp(ok) /\ AuthFrame
  \/ Logout /\ AuthFrame
  \/ \E loc \in Routes : GoTo(loc) /\ AuthFrame
  \/ \E fn \in ApiFunctions, code \in ApiStatuses, sameDoc \in BOOLEAN :
        ApiCall(fn, code, sameDoc) /\ AuthFrame

SpecAuth == AuthInit /\ [][AuthNext]_vars

SpecCache == CacheInit /\ [][CacheNext]_vars

\* a session on PredictPage: predict, search another symbol, let time pass,
\* reload. The responses: a result or a failure for the predictions, a
\* series or a failure for the series requests; localStorage has room
SessionBodies ==
  {b \in Bodies : b.multi /\ b.accuracy = 95 /\ b.baseline = Undef /\ b.hist = Num(100)}

SessionNext ==
  \/ FetchPredictions
  \/ \E code \in {200, 500}, data \in SessionBodies \cup {ErrorBody} : SubmitResp(code, data)
  \/ \E sym \in Symbols : Search(sym)
  \/ Reload
  \/ \E l \in loads, ok \in BOOLEAN, n \in Lengths : LoadIntraday(l, ok, n)
  \/ \E l \in loads, ok \in BOOLEAN, n2 \in Lengths : LoadOverview(l, ok, n2, TRUE)
  \/ \E l \in loads, ok \in BOOLEAN, n, n2 \in Lengths : LoadTimeSeries(l, ok, n, n2, TRUE)
  \/ \E b \in prefetches, ok \in BOOLEAN, n, n2 \in Lengths : Prefetch(b, ok, n, n2, TRUE)
  \/ \E d \in AdvanceSteps : Advance(d)

SpecSession == PollInit /\ [][SessionNext]_vars

PollNext ==
  \/ FetchPredictions
  \/ \E code \in SubmitStatuses, data \in Bodies \cup {ErrorBody} : SubmitResp(code, data)
  \/ \E code \in PollStatuses, data \in Bodies \cup {ErrorBody}, err \in JobErrors \cup {""} :
       PollResp(code, data, err)
  \/ SleepDone
  \/ PTick
  \/ \E st \in {"running", "done", "failed", "timeout"} : JobStep(st)

SpecPoll == PollInit /\ [][PollNext]_vars

(***************************************************************************)
(* Claims on the RequestQueue (checked under Spec)                         *)
(***************************************************************************)
Started == {t \in Tasks : status[t] = "running"}

\* C1: the number of executors started by process() and not yet settled never
\* exceeds maxConcurrent.
C1_ConcurrencyBound == Cardinality(Started) <= maxConcurrent

C1_Witness == Cardinality(Started) = maxConcurrent /\ Len(queue) > 0

\* C2: a task started after a settle that left the pending list non-empty is
\* started at least delayBetweenRequests ms after that settle.
C2_Pacing == lastStartGap >= 0 => lastStartGap >= delayBetweenRequests

\* C3: every executor is invoked at most once, exactly once before its promise
\* settles, and the promise of add() carries the executor's own outcome
\* (resolved with its value, rejected with its error).
C3_PromiseMirrorsExecutor ==
  \A t \in Tasks :
    /\ invoked[t] <= 1
    /\ status[t] \in {"new", "queued"} => invoked[t] = 0 /\ promise[t] = NoResult
    /\ status[t] = "running" => invoked[t] = 1 /\ promise[t] = NoResult
    /\ status[t] = "done" => /\ invoked[t] = 1
                             /\ execResult[t] \in Outcomes
                             /\ promise[t] = execResult[t]

C3_Witness ==
  \E t, u \in Tasks : /\ promise[t].kind = "ok" /\ promise[t].v = NValues
                       /\ promise[u].kind = "err" /\ behav[u] = 0

\* C4: when an executor fails, the running count is released (it equals the
\* number of executors still in flight), a fresh admission timer is pending if
\* tasks wait, no other task's promise changes, and the failed executor is
\* never invoked a second time.
C4_FailureAdvances ==
  [][\A t \in Tasks :
       /\ (promise[t] = NoResult /\ promise'[t].kind = "err") =>
            /\ running' = Cardinality({u \in Tasks : status'[u] = "running"})
            /\ Len(queue') > 0 =>
                 Len(timers') > 0 /\ timers'[Len(timers')] = delayBetweenRequests
            /\ \A u \in Tasks \ {t} : promise'[u] = promise[u]
            /\ invoked'[t] = 1
       /\ promise[t].kind = "err" => invoked'[t] = invoked[t]]_vars

C4_Witness ==
  \E t, u \in Tasks : /\ promise[t].kind = "err"
                       /\ promise[u].kind = "ok"
                       /\ \E i, j \in 1..Len(startOrder) :
                            i < j /\ startOrder[i] = t /\ startOrder[j] = u
                       /\ lastStartGap >= 0

\* C5: executors are started in the order of the add() calls: the start order
\* is a prefix of the add order.
C5_FifoAdmission ==
  /\ Len(startOrder) <= Len(addOrder)
  /\ \A i \in 1..Len(startOrder) : startOrder[i] = addOrder[i]

C5_Witness == Len(startOrder) >= 3 /\ Len(queue) > 0 /\ lastStartGap >= 0

(***************************************************************************)
(* Claims on the series cache (checked under SpecCache)                    *)
(***************************************************************************)
\* C6: a cache read (seriesCacheRef or loadFromStorage) returns a non-null
\* value only if the most recent write for its key has not expired at the time
\* of the read (time of read <= time of write + ttl).
C6_CacheFreshness ==
  \A rd \in reads :
    rd.result # NoPoints => rd.at <= lastWriteExp[<<rd.sym, rd.r>>]

C8_MalformedIsMiss ==
  [][\A k \in Keys :
       store[k].kind \in Malformed =>
         /\ LoadFromStorage(store[k], now) = NoPoints
         /\ (\A rd \in reads' :
               (reads' # reads /\ rd.tier = "store" /\ rd.sym = k[1] /\ rd.r = k[2])
                 => rd.result = NoPoints)
         /\ k \in healed' => /\ store'[k].kind = "ok"
                             /\ store'[k].points = mem'[k[2]]
                             /\ LoadFromStorage(store'[k], now') = mem'[k[2]]]_vars

C8_Witness ==
  \E k \in healed : /\ MalformedStore[k].kind = "noexp"
                    /\ NonEmpty(LoadFromStorage(store[k], now))

\* C9: whenever seriesCacheRef holds a series for a range, localStorage holds
\* that series under the key of its symbol and range, also after a write whose
\* setItem threw.
C9_TiersTogether ==
  \A r \in Ranges :
    mem[r] # NoPoints =>
      /\ store[<<mem[r].sym, r>>].kind = "ok"
      /\ store[<<mem[r].sym, r>>].points = mem[r]

\* C10: every item written to localStorage expires at the time of the write
\* plus the TTL of the policy table: 1D 1 minute while the market is open and
\* 12 hours while it is closed, 1W/1M/3M 30 minutes, longer ranges 12 hours.
C10_TtlPolicy ==
  [][\A k \in Keys :
       (store'[k] # store[k] /\ store'[k].kind = "ok") =>
          store'[k].exp = now +
            (IF k[2] = "1D"
             THEN (IF market = "open" THEN 1 * 60 * 1000 ELSE 12 * 60 * 60 * 1000)
             ELSE IF k[2] \in {"1W", "1M", "3M"} THEN 30 * 60 * 1000
             ELSE 12 * 60 * 60 * 1000)]_vars

C12_ErrorsNeverCached ==
  [][/\ \A l \in loads :
          (\E stOk \in BOOLEAN : LoadTimeSeries(l, FALSE, 0, 0, stOk)) =>
             mem'["1D"] = mem["1D"] /\ store'[<<l.sym, "1D">>] = store[<<l.sym, "1D">>]
     /\ \A b \in prefetches :
          Prefetch(b, FALSE, 0, 0, TRUE) =>
             mem'[b.r] = mem[b.r] /\ store'[<<b.sym, b.r>>] = store[<<b.sym, b.r>>]
     /\ \A c \in clicks :
          ClickResp(c, FALSE, 0, 0, TRUE) =>
             mem'[c.r] = mem[c.r] /\ store'[<<c.sym, c.r>>] = store[<<c.sym, c.r>>]]_vars

(***************************************************************************)
(* Claims on predictions and job polling (checked under SpecPoll)          *)
(***************************************************************************)
\* C13: every request to /jobs in flight was started by the RequestQueue, so
\* it is one of the requests its running count bounds.
C13_PollsViaQueue == ppc = "poll" => running >= 1 /\ Cardinality(Started) >= 1

\* C14: after a 202, once a response reports done with result X the call
\* resolves with the value derived from X; each request to /jobs is issued
\* intervalMs after the response to the one before it; no request to /jobs is
\* issued after a done or failed response.
C14_DoneResolves ==
  [][/\ "done" \in seen' =>
          /\ ppc' = "settled"
          /\ outcome'.kind = "resolved"
          /\ outcome'.out = Derive(respData')
          /\ predictionsData' = outcome'.out
     /\ (pollCount' # pollCount /\ pollCount > 0) =>
          pollGap' >= intervalMs /\ pollGap' = prevLatency + intervalMs
     /\ seen \cap {"done", "failed"} # {} => pollCount' = pollCount]_vars

C14_Witness ==
  /\ submitResp = 202 /\ outcome.kind = "resolved"
  /\ seen = {"queued", "running", "done"}
  /\ pollCount = 3 /\ pollGap = intervalMs
  /\ now - start = 2 * intervalMs

\* C15: when a response of /jobs reports failed, getPredictions rejects with an
\* error whose message carries the error message the backend gave for the job.
C15_FailedCarriesMessage ==
  "failed" \in seen =>
     /\ outcome.kind = "rejected"
     /\ \E i \in 1..Len(outcome.msg) : outcome.msg[i] = jobError

\* C16: a timeout is reported only when at least timeoutMs have passed since
\* pollJob started and no response reported done or failed.
C16_TimeoutNotEarly ==
  (outcome.kind = "rejected" /\ outcome.msg = <<"Job not completed: ", "timeout">>) =>
     /\ now - start >= timeoutMs
     /\ seen \cap {"done", "failed"} = {}

C16_Witness ==
  /\ outcome.kind = "rejected" /\ outcome.msg = <<"Job not completed: ", "timeout">>
  /\ now - start = timeoutMs
  /\ pollCount * intervalMs = timeoutMs

\* C17: when no response reports done or failed, the call ends with the
\* timeout error within timeoutMs plus one poll interval of the start of
\* pollJob.
C17_TerminatesInBound ==
  /\ (ppc \in {"poll", "sleep"} /\ seen \cap {"done", "failed"} = {}) =>
        now - start <= timeoutMs + intervalMs
  /\ (outcome.kind = "rejected" /\ outcome.msg = <<"Job not completed: ", "timeout">>) =>
        now - start <= timeoutMs + intervalMs

\* C18: when the submit is answered with a successful status other than 202,
\* the call resolves at once with the value derived from the body and no
\* request to /jobs is issued.
C18_Non202Immediate ==
  (submitResp # -1 /\ submitResp # 202 /\ submitResp \in 200..299) =>
     /\ ppc = "settled"
     /\ outcome.kind = "resolved"
     /\ outcome.out = Derive(respData)
     /\ pollCount = 0 /\ job = "none" /\ seen = {}

C18_Witness ==
  /\ submitResp = 200 /\ outcome.kind = "resolved" /\ pollCount = 0
  /\ lastPredModelData.symbol = selectedSymbol
  /\ respData.multi /\ respData.hist = Num(100)

\* C19: when the submit fails (fetch rejects, or the status is neither 2xx nor
\* 202), the call rejects with that failure and nothing else, no request to
\* /jobs is issued, and neither the series caches nor sh:lastPredModelData
\* nor the displayed predictions change.
C19_SubmitFailure ==
  (submitResp # -1 /\ submitResp \notin 200..299) =>
     /\ ppc = "settled"
     /\ outcome.kind = "rejected"
     /\ outcome.msg = IF submitResp = 0 THEN <<"fetch failed">>
                      ELSE IF submitResp = 401 THEN <<"Unauthorized">>
                      ELSE <<"Failed to fetch predictions">>
     /\ pollCount = 0 /\ job = "none" /\ seen = {}
     /\ predError
     /\ lastPredModelData = NoStored /\ predictionsData = Thrown
     /\ store = EmptyStore /\ mem = EmptyMem

C19_Witness ==
  /\ submitResp = 500 /\ outcome.kind = "rejected" /\ predError /\ token

\* C20: model 1 reports the backend's 1-week price exactly, and every change
\* percent of the three horizons of every model is computed from the one last
\* price of the result (or is undefined when there is none).
C20_DerivationConsistency ==
  outcome.kind = "resolved" =>
     LET out == outcome.out
         lastPrice == LastPrice(respData)
     IN /\ out.models[1].prediction = Exact(out.multiTimeframe["1_week"].price)
        /\ out.models[1].horizon["1_week"].price = out.models[1].prediction
        /\ \A m \in ModelIds, h \in Horizons :
             LET c == out.models[m].horizon[h].change_percent
             IN \/ c = Undef /\ ~TruthyFinite(lastPrice)
                \/ c.t = "pct" /\ c.base = lastPrice.v
                                /\ c.price = out.models[m].horizon[h].price

\* C21: within one model the figures agree: the top-level prediction is the
\* price of predictions_1w (one draw per horizon), the top-level change percent
\* is computed from the top-level prediction, and the change percent of each
\* horizon is computed from the price reported with it.
C21_SingleDraw ==
  outcome.kind = "resolved" =>
     LET out == outcome.out
         lastPrice == LastPrice(respData)
     IN \A m \in ModelIds :
          /\ out.models[m].prediction = out.models[m].horizon["1_week"].price
          /\ TruthyFinite(lastPrice) =>
               /\ out.models[m].change_percent =
                    [t |-> "pct", price |-> out.models[m].prediction, base |-> lastPrice.v]
               /\ \A h \in Horizons :
                    out.models[m].horizon[h].change_percent =
                      [t |-> "pct", price |-> out.models[m].horizon[h].price,
                       base |-> lastPrice.v]

\* C22: the accuracy of every model is the backend's accuracy plus the
\* model's delta, clamped to [0, 100].
C22_AccuracyClamped ==
  outcome.kind = "resolved" =>
     \A m \in ModelIds :
        LET sum == respData.accuracy + AccuracyDelta(m)
        IN outcome.out.models[m].accuracy =
             (IF sum < 0 THEN 0 ELSE IF sum > 100 THEN 100 ELSE sum)

\* C23: when historicalData is empty the derivation does not throw and every
\* change percent, top-level and per horizon, of every model is undefined.
C23_EmptyHistoryUndefined ==
  (ppc = "settled" /\ submitResp \in {200, 202} /\ (submitResp = 202 => "done" \in seen)
     /\ respData.hist = Undef) =>
     /\ outcome.kind = "resolved"
     /\ \A m \in ModelIds :
          /\ outcome.out.models[m].change_percent = Undef
          /\ \A h \in Horizons : outcome.out.models[m].horizon[h].change_percent = Undef

(***************************************************************************)
(* Claim on the liveness of RequestQueue (checked under SpecLive)          *)
(***************************************************************************)
\* C26: if started executors settle and timers fire, every task passed to
\* add() is eventually started; and whenever the queue is non-empty with
\* running < maxConcurrent, a delayed process() is still pending.
C26_EveryTaskStarts ==
  /\ [](Len(queue) > 0 /\ running < maxConcurrent => Len(timers) > 0)
  /\ \A t \in Tasks : (status[t] = "queued") ~> (status[t] \in {"running", "done"})

C26_Witness ==
  /\ Len(startOrder) = NTasks
  /\ \A t \in Tasks : status[t] = "done"
  /\ lastStartGap = delayBetweenRequests
  /\ \E t \in Tasks : behav[t] > 0

(***************************************************************************)
(* Claims on races of the series cache (checked under SpecRace)            *)
(***************************************************************************)
\* C27: on PredictPage, once the load of the selected symbol has written its
\* 1D series, neither seriesCacheRef nor the displayed series holds a series
\* fetched for another symbol.
C27_NoForeignSeries ==
  (page = "predict" /\ loads = {} /\ mem["1D"].sym = selectedSymbol) =>
     /\ \A r \in Ranges : mem[r].sym \in {"", selectedSymbol}
     /\ series.sym \in {"", selectedSymbol}

\* C28: after two range-tab clicks and no search, once every request has been
\* answered and the request of the second click (a miss in both tiers, on a
\* range that is not prefetched) has delivered a non-empty series for the
\* selected range, the displayed series is that series.
C28_LatestRangeWins ==
  (/\ Idle /\ events = 2 /\ lastSymbol = ""
   /\ range \notin PrefetchRanges
   /\ reads # {} /\ \A rd \in reads : rd.r = range /\ ~NonEmpty(rd.result)
   /\ NonEmpty(mem[range]) /\ mem[range].r = range) =>
     series = mem[range]

(***************************************************************************)
(* Claims on authentication (checked under SpecAuth)                       *)
(***************************************************************************)
\* C24: a 401 response to any call of api.js removes the stored credential
\* and is reported as the Unauthorized error, not as the error of the other
\* non-2xx statuses.
C24_UnauthorizedEverywhere ==
  lastApi.code = 401 =>
     /\ ~lastApi.stored
     /\ lastApi.error = "Unauthorized"
     /\ lastApi.error # ApiError(lastApi.fn, 500)

\* C30: whenever isAuthenticated() is true the credential is stored, and
\* ProtectedRoute renders /predict only while it is.
C30_AuthenticatedHasCredential ==
  /\ IsAuthenticated => token
  /\ (location = "/#/predict" /\ ProtectedRoute = "children") => token

(***************************************************************************)
(* Claims on the predictions restored at mount (checked under SpecSession) *)
(***************************************************************************)
\* C25: a prediction bundle stored more than 60 minutes ago is not restored
\* into the page when PredictPage is mounted.
C25_StoredPredictionTtl ==
  [][(Reload /\ now - lastPredModelData.at > 60 * 60 * 1000) =>
        predictionsData' = Thrown]_vars

\* C29: the predictions restored when PredictPage is mounted were stored for
\* the symbol that is selected after the restore.
C29_RestoredForSelected ==
  [][(Reload /\ HasStored(lastPredModelData)) =>
        /\ predictionsData' = Restored(lastPredModelData)
        /\ lastPredModelData.symbol = selectedSymbol']_vars

====
